---- MODULE Spec2Model ----
(***************************************************************************)
(* GIF -> ASCII converter (src/App.tsx): the frame compositor and the      *)
(* luminance quantiser of decodeGifFromBytes / imageDataToAscii, and the   *)
(* playback state of the App component (frames, index, playing, the        *)
(* interval timer of the playback effect).                                 *)
(*                                                                         *)
(* Representation.  A string is a sequence of one-character strings, so    *)
(* that split and join are computed and not assumed.  A pixel is           *)
(* <<r, g, b, a>>.  An ImageData is [width, height, data] with data the    *)
(* row-major sequence of its pixels (pixel (x, y) is data[y*width+x+1]).   *)
(* Math.round(p/q) is computed on exact rationals.                         *)
(***************************************************************************)
EXTENDS Integers, Sequences, FiniteSets, TLC

VARIABLES
    frames,          \* useState<FrameAscii[] | null>
    index,           \* useState(0)
    playing,         \* useState(false)
    fps,             \* useState(12)
    width,           \* useState(DEFAULT_WIDTH)
    alphaThreshold,  \* useState(16)
    timerRef,        \* timerRef.current: an interval id, 0 for null
    intervals,       \* the browser's live interval timers: [id, len, delay]
    effectPending,   \* a commit changed [playing, fps, frames] and the effect has not run yet
    cleanup,         \* the effect's last run returned its cleanup function
    mounted,         \* FALSE once a render has thrown and React has unmounted App
    lastOp,          \* the handler or callback that made the last step
    conv,            \* the conversion that built frames: [width, lw, lh]
    browser,         \* the canvas implementation: [smoothing, premultiplied]
    decompressed,    \* decodeGifFromBytes: the decoder's patch frames
    lsd,             \* decodeGifFromBytes: gif.lsd, [width, height]
    canvas,          \* decodeGifFromBytes: the logical canvas behind ctx
    asciiFrames,     \* decodeGifFromBytes: the frames collected so far
    pos,             \* decodeGifFromBytes: patch frames consumed by the loop
    full,            \* decodeGifFromBytes: the snapshot of the last iteration
    pc               \* decodeGifFromBytes: "idle", "loop", "done"

appVars == <<frames, index, playing, fps, width, alphaThreshold, timerRef,
             intervals, effectPending, cleanup, mounted, lastOp, conv>>
asmVars == <<decompressed, lsd, canvas, asciiFrames, pos, full, pc>>
vars == <<appVars, asmVars, browser>>

----------------------------------------------------------------------------
(* Bounds of the model *)

MaxFrames == 2      \* longest patch-frame list the assembler is run on

----------------------------------------------------------------------------
(* Constants of the program *)

ASCII_CHARS == <<"@", "%", "#", "*", "+", "=", "-", ":", ".", " ">>
DEFAULT_WIDTH == 80

\* frames === null.  Every FrameAscii the program builds has at least one
\* line, so no FrameAscii[] equals this value; [] is <<>> and is not Null.
Null == << <<>> >>
\* f.patch absent.  A patch that carries pixel data has at least one pixel.
NoPatch == <<>>

Max(a, b) == IF a >= b THEN a ELSE b
Abs(a) == IF a < 0 THEN -a ELSE a

\* Math.round(p / q) for q > 0: the nearest integer, halves towards +infinity.
Round(p, q) == (2 * p + q) \div (2 * q)

----------------------------------------------------------------------------
(* Pixels and ImageData *)

Transparent == <<0, 0, 0, 0>>
Black == <<0, 0, 0, 255>>
White == <<255, 255, 255, 255>>
Clear == <<255, 255, 255, 0>>     \* a transparent-index pixel of a white palette entry

ImageData(data, w, h) == [width |-> w, height |-> h, data |-> data]

\* the column and the row of the i-th pixel of a row-major raster of width w
XOf(i, w) == (i - 1) % w
YOf(i, w) == (i - 1) \div w

\* a w x h raster of one pixel value
Blank(w, h, p) == [width |-> w, height |-> h, data |-> [i \in 1..(w * h) |-> p]]

InImage(img, x, y) == x >= 0 /\ x < img.width /\ y >= 0 /\ y < img.height

PixelAt(img, x, y) ==
    IF InImage(img, x, y) THEN img.data[y * img.width + x + 1] ELSE Transparent

InRect(x, y, rx, ry, rw, rh) == x >= rx /\ x < rx + rw /\ y >= ry /\ y < ry + rh

\* What a canvas gives back for a pixel written into it.  A canvas whose
\* backing store is premultiplied loses the colour of a transparent pixel.
Stored(p, br) ==
    IF ~br.premultiplied \/ p[4] = 255 THEN p
    ELSE IF p[4] = 0 THEN Transparent
    ELSE LET Pre(c) == Round(c * p[4], 255)
             Un(c) == IF Round(c * 255, p[4]) > 255 THEN 255 ELSE Round(c * 255, p[4])
         IN <<Un(Pre(p[1])), Un(Pre(p[2])), Un(Pre(p[3])), p[4]>>

\* canvas.width = v; canvas.height = v
CanvasDim(v) == IF v < 0 THEN 300 ELSE v

\* document.createElement("canvas") sized w x h: transparent black
NewCanvas(w, h) == Blank(CanvasDim(w), CanvasDim(h), Transparent)

\* a patch write that composites source-over: a transparent source pixel
\* leaves the destination as it was
putImageData_SourceOver(cv, imageData, dx, dy, br) ==
    [cv EXCEPT !.data =
        [i \in 1..(cv.width * cv.height) |->
            LET x == XOf(i, cv.width)
                y == YOf(i, cv.width)
            IN IF InRect(x, y, dx, dy, imageData.width, imageData.height)
                  /\ PixelAt(imageData, x - dx, y - dy)[4] # 0
               THEN Stored(PixelAt(imageData, x - dx, y - dy), br)
               ELSE PixelAt(cv, x, y)]]

\* ctx.putImageData(imageData, dx, dy): overwrite, no blending, clipped to the canvas
putImageData(cv, imageData, dx, dy, br) ==
    [cv EXCEPT !.data =
        [i \in 1..(cv.width * cv.height) |->
            LET x == XOf(i, cv.width)
                y == YOf(i, cv.width)
            IN IF InRect(x, y, dx, dy, imageData.width, imageData.height)
               THEN Stored(PixelAt(imageData, x - dx, y - dy), br)
               ELSE PixelAt(cv, x, y)]]

\* ctx.clearRect(rx, ry, rw, rh)
clearRect(cv, rx, ry, rw, rh) ==
    [cv EXCEPT !.data =
        [i \in 1..(cv.width * cv.height) |->
            LET x == XOf(i, cv.width)
                y == YOf(i, cv.width)
            IN IF InRect(x, y, rx, ry, rw, rh) THEN Transparent ELSE PixelAt(cv, x, y)]]

\* ctx.getImageData(sx, sy, sw, sh): a negative extent reaches to the left of
\* (above) the origin; pixels outside the canvas are transparent black.
getImageData(cv, sx, sy, sw, sh) ==
    LET x0 == IF sw < 0 THEN sx + sw ELSE sx
        y0 == IF sh < 0 THEN sy + sh ELSE sy
    IN [width |-> Abs(sw), height |-> Abs(sh),
        data |-> [i \in 1..(Abs(sw) * Abs(sh)) |->
                     PixelAt(cv, x0 + XOf(i, Abs(sw)), y0 + YOf(i, Abs(sw)))]]

\* The destination pixel (u, v) of an image scaled from src to tw x th: the mean,
\* in premultiplied colour, of the source pixels under it ("area"), or the
\* source pixel under its centre ("nearest").
RECURSIVE SumPremul(_, _, _)
SumPremul(ps, c, k) ==
    IF k = 0 THEN 0
    ELSE (IF c = 4 THEN ps[k][4] ELSE ps[k][c] * ps[k][4]) + SumPremul(ps, c, k - 1)

Mean(ps) ==
    LET n == Len(ps)
        sa == SumPremul(ps, 4, n)
    IN IF sa = 0 THEN Transparent
       ELSE <<Round(SumPremul(ps, 1, n), sa), Round(SumPremul(ps, 2, n), sa),
              Round(SumPremul(ps, 3, n), sa), Round(sa, n)>>

Sample(src, u, v, tw, th, br) ==
    LET near == br.smoothing = "nearest"
        xlo == IF near THEN ((2 * u + 1) * src.width) \div (2 * tw) ELSE (u * src.width) \div tw
        xhi == IF near THEN xlo ELSE Max(xlo, ((u + 1) * src.width + tw - 1) \div tw - 1)
        ylo == IF near THEN ((2 * v + 1) * src.height) \div (2 * th) ELSE (v * src.height) \div th
        yhi == IF near THEN ylo ELSE Max(ylo, ((v + 1) * src.height + th - 1) \div th - 1)
        cw == xhi - xlo + 1
        ps == [i \in 1..(cw * (yhi - ylo + 1)) |->
                  PixelAt(src, xlo + ((i - 1) % cw), ylo + ((i - 1) \div cw))]
    IN Mean(ps)

\* ctx.drawImage(src, 0, 0, w, h, 0, 0, dw, dh) onto a transparent canvas; a
\* negative dw mirrors the image into the columns left of the origin.
drawImage(cv, src, dw, dh, br) ==
    LET rx == IF dw < 0 THEN dw ELSE 0
    IN [cv EXCEPT !.data =
           [i \in 1..(cv.width * cv.height) |->
               LET x == XOf(i, cv.width)
                   y == YOf(i, cv.width)
               IN IF InRect(x, y, rx, 0, Abs(dw), dh)
                  THEN Sample(src, IF dw < 0 THEN -1 - x ELSE x, y, Abs(dw), dh, br)
                  ELSE PixelAt(cv, x, y)]]

----------------------------------------------------------------------------
(* Luminance mapper and grid resampler *)

\* rgbToLum, in units of 1/10000
rgbToLum(r, g, b) == 2126 * r + 7152 * g + 722 * b

\* an index taken from the red channel alone
PaletteIndex_RedOnly(r, g, b) == Round(r * (Len(ASCII_CHARS) - 1), 255)

\* const idx = Math.round(lum * (ASCII_CHARS.length - 1)), lum = rgbToLum / 255
PaletteIndex(r, g, b) == Round(rgbToLum(r, g, b) * (Len(ASCII_CHARS) - 1), 255 * 10000)

\* row += ASCII_CHARS[idx]: an index outside the string appends "undefined"
CharAt(idx) ==
    IF idx >= 0 /\ idx < Len(ASCII_CHARS) THEN <<ASCII_CHARS[idx + 1]>>
    ELSE <<"u", "n", "d", "e", "f", "i", "n", "e", "d">>

\* a glyph taken from the luminance whatever the alpha
PixelToChar_NoAlpha(p, thr) == CharAt(PaletteIndex(p[1], p[2], p[3]))

\* the glyph of one pixel: the alpha test comes first
PixelToChar(p, thr) ==
    IF p[4] < thr THEN <<" ">>
    ELSE CharAt(PaletteIndex(p[1], p[2], p[3]))

\* const targetWidth = width
targetWidth(imgData, wd) == wd

\* targetHeight without the 0.5 that makes up for the height of a glyph
targetHeight_NoHalf(imgData, wd) ==
    Max(1, Round(imgData.height * targetWidth(imgData, wd), imgData.width))

\* Math.max(1, Math.round(ratio * targetWidth * 0.5)), ratio = h / w
targetHeight(imgData, wd) ==
    Max(1, Round(imgData.height * targetWidth(imgData, wd), 2 * imgData.width))

\* the resized ImageData read back from the temporary canvas
Resized(imgData, wd, br) ==
    LET tw == targetWidth(imgData, wd)
        th == targetHeight(imgData, wd)
        tmp == NewCanvas(tw, th)
        src == putImageData(NewCanvas(imgData.width, imgData.height), imgData, 0, 0, br)
    IN getImageData(drawImage(tmp, src, tw, th, br), 0, 0, tw, th)

RECURSIVE AsciiRow(_, _, _, _)
AsciiRow(resized, y, n, thr) ==
    IF n = 0 THEN <<>>
    ELSE AsciiRow(resized, y, n - 1, thr)
         \o PixelToChar(PixelAt(resized, n - 1, y), thr)

imageDataToAscii(imgData, wd, thr, br) ==
    LET resized == Resized(imgData, wd, br)
    IN [y \in 1..resized.height |-> AsciiRow(resized, y - 1, resized.width, thr)]

----------------------------------------------------------------------------
(* decodeGifFromBytes: compositor and assembler *)

\* a loop that reads one frame ahead of the one it is at
FrameAt_Next(fs, k) == fs[IF k < Len(fs) THEN k + 1 ELSE k]

\* for (const f of decompressed): the k-th patch frame the loop visits
FrameAt(fs, k) == fs[k]

\* a disposal that clears the whole canvas instead of the patch's rectangle
Dispose_ClearsScreen(cv, f) ==
    IF f.disposalType \in {2, 3} THEN clearRect(cv, 0, 0, cv.width, cv.height) ELSE cv

\* a disposal that clears the rectangle whatever the tag
Dispose_Always(cv, f) ==
    clearRect(cv, f.dims.left, f.dims.top, f.dims.width, f.dims.height)

\* a disposal that leaves the canvas alone on tag 3
Dispose_KeepsOnThree(cv, f) ==
    IF f.disposalType = 2
    THEN clearRect(cv, f.dims.left, f.dims.top, f.dims.width, f.dims.height)
    ELSE cv

\* the disposal step at the end of the loop body
Dispose(cv, f) ==
    IF f.disposalType = 2
    THEN clearRect(cv, f.dims.left, f.dims.top, f.dims.width, f.dims.height)
    ELSE IF f.disposalType = 3
    THEN clearRect(cv, f.dims.left, f.dims.top, f.dims.width, f.dims.height)
    ELSE cv

\* the patch write at the start of the loop body
WritePatch(cv, f, br) ==
    IF f.patch # NoPatch
    THEN putImageData(cv, ImageData(f.patch, f.dims.width, f.dims.height),
                      f.dims.left, f.dims.top, br)
    ELSE cv

\* a loop body that takes the snapshot after the disposal
LoopBody_DisposesFirst(st, f, logical, w, thr, br) ==
    LET disposed == Dispose(WritePatch(st.canvas, f, br), f)
        snap == getImageData(disposed, 0, 0, logical.width, logical.height)
    IN [canvas |-> disposed,
        asciiFrames |-> Append(st.asciiFrames, imageDataToAscii(snap, w, thr, br)),
        full |-> snap]

\* a loop body that skips the frames without patch data
LoopBody_SkipsNoPatch(st, f, logical, w, thr, br) ==
    IF f.patch = NoPatch THEN [st EXCEPT !.canvas = Dispose(st.canvas, f)]
    ELSE LET written == WritePatch(st.canvas, f, br)
             snap == getImageData(written, 0, 0, logical.width, logical.height)
         IN [canvas |-> Dispose(written, f),
             asciiFrames |-> Append(st.asciiFrames, imageDataToAscii(snap, w, thr, br)),
             full |-> snap]

\* one iteration of the loop over decompressed
LoopBody(st, f, logical, w, thr, br) ==
    LET written == WritePatch(st.canvas, f, br)
        snap == getImageData(written, 0, 0, logical.width, logical.height)
        ascii == imageDataToAscii(snap, w, thr, br)
    IN [canvas |-> Dispose(written, f),
        asciiFrames |-> Append(st.asciiFrames, ascii),
        full |-> snap]

\* the state before the loop: canvas created and cleared, no frames
LoopStart(logical) ==
    LET c == clearRect(NewCanvas(logical.width, logical.height),
                       0, 0, logical.width, logical.height)
    IN [canvas |-> c, asciiFrames |-> <<>>, full |-> c]

RECURSIVE RunLoop(_, _, _, _, _, _)
RunLoop(k, fs, logical, w, thr, br) ==
    IF k = 0 THEN LoopStart(logical)
    ELSE LoopBody(RunLoop(k - 1, fs, logical, w, thr, br), FrameAt(fs, k), logical, w, thr, br)

\* the asciiFrames decodeGifFromBytes hands to setFrames
Assemble(gif, w, thr, br) == RunLoop(Len(gif.frames), gif.frames, gif.lsd, w, thr, br).asciiFrames

----------------------------------------------------------------------------
(* The decoder's output: patch frames on a 4 x 4 logical screen *)

Rect(l, t, w, h) == [left |-> l, top |-> t, width |-> w, height |-> h]

\* a patch of w x h pixels of one colour
Solid(p, w, h) == [i \in 1..(w * h) |-> p]

PatchFrame(patch, dims, disposal) == [patch |-> patch, dims |-> dims, disposalType |-> disposal]

Disposals == 0..3

\* whole-screen black patches that stay or are cleared, and 2 x 2 patches at
\* (1, 1): white with every disposal tag, transparent or without pixel data
\* with an unset tag, tag 2 and tag 3
PatchFrames ==
    {PatchFrame(Solid(Black, 4, 4), Rect(0, 0, 4, 4), d) : d \in {1, 2}}
    \cup {PatchFrame(Solid(White, 2, 2), Rect(1, 1, 2, 2), d) : d \in Disposals}
    \cup {PatchFrame(p, Rect(1, 1, 2, 2), d) :
             p \in {Solid(Clear, 2, 2), NoPatch}, d \in Disposals \ {1}}

Gif(logical, fs) == [lsd |-> logical, frames |-> fs]

SeqsUpTo(S, n) == UNION {[1..k -> S] : k \in 0..n}

Logical == [width |-> 4, height |-> 4]

\* the concrete two-frame animation of the specification's scenario
Scenario ==
    <<PatchFrame(Solid(Black, 4, 4), Rect(0, 0, 4, 4), 1),
      PatchFrame(Solid(White, 2, 2), Rect(1, 1, 2, 2), 2)>>

Browsers == [smoothing : {"area", "nearest"}, premultiplied : BOOLEAN]

----------------------------------------------------------------------------
(* The App component: state, render, the playback effect *)

\* i % n in JavaScript for i >= 0; NaN when n is 0
NaN == 0 - 1
JsMod(i, n) == IF n = 0 \/ i = NaN THEN NaN ELSE i % n

\* Math.max(1, Math.round(1000 / fps))
Delay(f) == Max(1, IF f > 0 THEN Round(1000, f) ELSE Round(-1000, -f))

\* parseInt(e.target.value) || dflt: 0 stands for "0" and for text that is no number
ParseOr(v, dflt) == IF v = 0 THEN dflt ELSE v

\* text.split("\n"): the pieces between the line feeds, one more than there are
\* line feeds
Split(text) ==
    LET nl == {p \in 1..Len(text) : text[p] = "\n"}
        \* the position of the k-th line feed; 0 before the first, Len + 1 after the last
        At(k) == IF k = 0 THEN 0
                 ELSE IF k > Cardinality(nl) THEN Len(text) + 1
                 ELSE CHOOSE p \in nl : Cardinality({q \in nl : q <= p}) = k
    IN [k \in 1..(Cardinality(nl) + 1) |-> SubSeq(text, At(k - 1) + 1, At(k) - 1)]

\* lines.join("\n")
RECURSIVE Join(_)
Join(lines) ==
    IF lines = <<>> THEN <<>>
    ELSE IF Len(lines) = 1 THEN lines[1]
    ELSE lines[1] \o <<"\n">> \o Join(Tail(lines))

\* window.setInterval: a fresh id (the ids are opaque; the least one not live)
NewId(ivs) == CHOOSE i \in 1..(Cardinality(ivs) + 1) : \A t \in ivs : t.id # i

\* window.clearInterval(id)
clearInterval(ivs, id) == {t \in ivs : t.id # id}

\* the timer side of the component: timerRef.current, the live intervals, and
\* whether the effect's last run returned a cleanup
Timers == [timerRef |-> timerRef, intervals |-> intervals, cleanup |-> cleanup]

\* a cleanup that forgets the timer without clearing it
EffectCleanup_LeavesTimer(T) == [timerRef |-> 0, intervals |-> T.intervals, cleanup |-> FALSE]

\* the cleanup the effect returns while playing
EffectCleanup(T) ==
    [timerRef |-> 0,
     intervals |-> IF T.timerRef # 0 THEN clearInterval(T.intervals, T.timerRef) ELSE T.intervals,
     cleanup |-> FALSE]

\* the body of the playback effect, run with the committed frames, playing, fps
EffectBody(fr, pl, fp, T) ==
    IF fr = Null THEN [T EXCEPT !.cleanup = FALSE]
    ELSE IF pl
    THEN LET id == NewId(T.intervals)
         IN [timerRef |-> id,
             intervals |-> T.intervals \cup {[id |-> id, len |-> Len(fr), delay |-> Delay(fp)]},
             cleanup |-> TRUE]
    ELSE IF T.timerRef # 0
    THEN [timerRef |-> 0, intervals |-> clearInterval(T.intervals, T.timerRef), cleanup |-> FALSE]
    ELSE [T EXCEPT !.cleanup = FALSE]

\* an effect re-run without the previous run's cleanup
useEffect_NoCleanup(fr, pl, fp, T) == EffectBody(fr, pl, fp, T)

\* React re-running the effect: the previous run's cleanup, then the body
useEffect(fr, pl, fp, T) ==
    EffectBody(fr, pl, fp, IF T.cleanup THEN EffectCleanup(T) ELSE T)

\* React unmounting the component after a render threw
Unmount(T) == IF T.cleanup THEN EffectCleanup(T) ELSE T

\* the render: frames ? frames[index].join("\n") : ...  throws when frames[index]
\* is undefined
RenderOk(fr, ix) == fr = Null \/ (ix >= 0 /\ ix < Len(fr))

\* One committed update of the component state.  kind is "discrete" for a click,
\* change or blur handler (React runs the effect before the handler returns),
\* "async" for the end of decodeGifFromBytes after an await (the effect is left
\* to a later task, and timers can fire before it), "timer" for the interval
\* callback.  React runs an effect that is still pending before it renders a
\* discrete or async update.
Commit(op, fr, ix, pl, fp, newFrames, kind) ==
    LET changed == newFrames \/ ix # index \/ pl # playing \/ fp # fps
        deps == newFrames \/ pl # playing \/ fp # fps
        T1 == IF effectPending /\ changed /\ kind # "timer"
              THEN useEffect(frames, playing, fps, Timers) ELSE Timers
        pend1 == effectPending /\ ~(changed /\ kind # "timer")
        ok == RenderOk(fr, ix)
        T2 == IF ~ok THEN Unmount(T1)
              ELSE IF deps /\ kind = "discrete" THEN useEffect(fr, pl, fp, T1)
              ELSE T1
    IN /\ frames' = fr
       /\ index' = ix
       /\ playing' = pl
       /\ fps' = fp
       /\ mounted' = ok
       /\ timerRef' = T2.timerRef
       /\ intervals' = T2.intervals
       /\ cleanup' = T2.cleanup
       /\ effectPending' = (ok /\ (IF deps THEN kind # "discrete" ELSE pend1))
       /\ lastOp' = op

----------------------------------------------------------------------------
(* Inputs of the handlers *)

\* the animations a file or URL can hold, on an 8 x 1 logical screen: no frame,
\* one, two and three frames
Strip == [width |-> 8, height |-> 1]

AppGifs ==
    {Gif(Strip, fs) :
        fs \in {<<>>,
                <<PatchFrame(Solid(White, 4, 1), Rect(2, 0, 4, 1), 0)>>,
                <<PatchFrame(Solid(Black, 8, 1), Rect(0, 0, 8, 1), 1),
                  PatchFrame(Solid(White, 4, 1), Rect(2, 0, 4, 1), 2)>>,
                <<PatchFrame(Solid(Black, 8, 1), Rect(0, 0, 8, 1), 1),
                  PatchFrame(Solid(White, 4, 1), Rect(2, 0, 4, 1), 3),
                  PatchFrame(NoPatch, Rect(0, 0, 8, 1), 2)>>}}

\* what gifuct-js makes of new Uint8Array(): it throws, or it finds no frame
\* on a screen without dimensions
EmptyBytes == {"throws", "noFrames"}

WidthInputs == {0, -3}
FpsInputs == {0, -5}
AlphaInputs == {0, 300}

\* the values the width and alpha-threshold inputs can leave in the state
Widths == {ParseOr(v, DEFAULT_WIDTH) : v \in WidthInputs}
Thresholds == {ParseOr(v, 16) : v \in AlphaInputs}

\* Assemble, tabulated over the inputs above
Assembled ==
    LET f == [g \in AppGifs, w \in Widths, t \in Thresholds, b \in Browsers |->
                 Assemble(g, w, t, b)]
    IN IF f = f THEN f ELSE f

\* the textarea's text when it loses focus: the frame as shown, or an edit
EditTexts(fr, ix) ==
    {<<"@", "\n", "@", "@">>}
    \cup (IF fr # Null /\ RenderOk(fr, ix) THEN {Join(fr[ix + 1])} ELSE {})

----------------------------------------------------------------------------
(* The App component: construction and handlers *)

NoConv == [width |-> 0, lsd |-> [width |-> 0, height |-> 0]]

InitApp ==
    /\ frames = Null
    /\ index = 0
    /\ playing = FALSE
    /\ fps = 12
    /\ width = DEFAULT_WIDTH
    /\ alphaThreshold = 16
    /\ timerRef = 0
    /\ intervals = {}
    /\ effectPending = FALSE
    /\ cleanup = FALSE
    /\ mounted = TRUE
    /\ lastOp = "init"
    /\ conv = NoConv

IdleAsm ==
    /\ decompressed = <<>>
    /\ lsd = Logical
    /\ canvas = LoopStart(Logical).canvas
    /\ asciiFrames = <<>>
    /\ pos = 0
    /\ full = LoopStart(Logical).full
    /\ pc = "idle"

Init ==
    /\ InitApp
    /\ IdleAsm
    /\ browser \in Browsers

\* a conversion that publishes the frames without setIndex(0)
HandleFile_KeepsIndex(gif) ==
    /\ mounted
    /\ Commit("Load", Assembled[gif, width, alphaThreshold, browser], index, playing, fps,
              TRUE, "async")
    /\ conv' = [width |-> width, lsd |-> gif.lsd]
    /\ UNCHANGED <<width, alphaThreshold, asmVars, browser>>

\* handleFile / handleConvertUrl: decodeGifFromBytes on the bytes of a GIF,
\* which ends with setFrames(asciiFrames); setIndex(0)
HandleFile(gif) ==
    /\ mounted
    /\ Commit("Load", Assembled[gif, width, alphaThreshold, browser], 0, playing, fps,
              TRUE, "async")
    /\ conv' = [width |-> width, lsd |-> gif.lsd]
    /\ UNCHANGED <<width, alphaThreshold, asmVars, browser>>

\* the Re-render button: if (frames) decodeGifFromBytes(new Uint8Array())
ReRender(outcome) ==
    /\ mounted
    /\ frames # Null
    /\ IF outcome = "noFrames"
       THEN /\ Commit("ReRender", <<>>, 0, playing, fps, TRUE, "discrete")
            /\ conv' = [width |-> width, lsd |-> [width |-> 0, height |-> 0]]
       ELSE /\ Commit("ReRender", frames, index, playing, fps, FALSE, "discrete")
            /\ conv' = conv
    /\ UNCHANGED <<width, alphaThreshold, asmVars, browser>>

\* the interval callback: setIndex((i) => (i + 1) % frames.length), with the
\* frames of the render whose effect started the interval
Tick(t) ==
    /\ mounted
    /\ t \in intervals
    /\ Commit("Tick", frames, JsMod(index + 1, t.len), playing, fps, FALSE, "timer")
    /\ UNCHANGED <<width, alphaThreshold, conv, asmVars, browser>>

\* React running the effect a commit left pending
FlushEffect ==
    /\ mounted
    /\ effectPending
    /\ LET T == useEffect(frames, playing, fps, Timers)
       IN /\ timerRef' = T.timerRef
          /\ intervals' = T.intervals
          /\ cleanup' = T.cleanup
    /\ effectPending' = FALSE
    /\ lastOp' = "Effect"
    /\ UNCHANGED <<frames, index, playing, fps, mounted, width, alphaThreshold, conv,
                   asmVars, browser>>

\* a Prev that stops at the first frame instead of wrapping to the last
Prev_Clamped ==
    /\ mounted
    /\ frames # Null
    /\ Commit("Prev", frames, Max(0, index - 1), playing, fps, FALSE, "discrete")
    /\ UNCHANGED <<width, alphaThreshold, conv, asmVars, browser>>

\* the buttons under the preview; each is disabled while frames is null
Prev ==
    /\ mounted
    /\ frames # Null
    /\ Commit("Prev", frames, JsMod(index - 1 + Len(frames), Len(frames)), playing, fps,
              FALSE, "discrete")
    /\ UNCHANGED <<width, alphaThreshold, conv, asmVars, browser>>

NextFrame ==
    /\ mounted
    /\ frames # Null
    /\ Commit("Next", frames, JsMod(index + 1, Len(frames)), playing, fps, FALSE, "discrete")
    /\ UNCHANGED <<width, alphaThreshold, conv, asmVars, browser>>

Play ==
    /\ mounted
    /\ frames # Null
    /\ Commit("Play", frames, index, TRUE, fps, FALSE, "discrete")
    /\ UNCHANGED <<width, alphaThreshold, conv, asmVars, browser>>

Stop ==
    /\ mounted
    /\ frames # Null
    /\ Commit("Stop", frames, index, FALSE, fps, FALSE, "discrete")
    /\ UNCHANGED <<width, alphaThreshold, conv, asmVars, browser>>

\* the number inputs
SetWidth(v) ==
    /\ mounted
    /\ width' = ParseOr(v, DEFAULT_WIDTH)
    /\ Commit("SetWidth", frames, index, playing, fps, FALSE, "discrete")
    /\ UNCHANGED <<alphaThreshold, conv, asmVars, browser>>

SetFps(v) ==
    /\ mounted
    /\ Commit("SetFps", frames, index, playing, ParseOr(v, 12), FALSE, "discrete")
    /\ UNCHANGED <<width, alphaThreshold, conv, asmVars, browser>>

SetAlphaThreshold(v) ==
    /\ mounted
    /\ alphaThreshold' = ParseOr(v, 16)
    /\ Commit("SetAlpha", frames, index, playing, fps, FALSE, "discrete")
    /\ UNCHANGED <<width, conv, asmVars, browser>>

\* an edit that always overwrites the first frame
applyFrameEdit_AtFirst(text) ==
    /\ mounted
    /\ IF frames = Null
       THEN Commit("Edit", frames, index, playing, fps, FALSE, "discrete")
       ELSE Commit("Edit", [frames EXCEPT ![1] = Split(text)], index, playing, fps,
                   TRUE, "discrete")
    /\ UNCHANGED <<width, alphaThreshold, conv, asmVars, browser>>

\* the textarea's onBlur: applyFrameEdit(e.target.value)
applyFrameEdit(text) ==
    /\ mounted
    /\ IF frames = Null
       THEN Commit("Edit", frames, index, playing, fps, FALSE, "discrete")
       ELSE Commit("Edit", [frames EXCEPT ![index + 1] = Split(text)], index, playing, fps,
                   TRUE, "discrete")
    /\ UNCHANGED <<width, alphaThreshold, conv, asmVars, browser>>

Next ==
    \/ \E gif \in AppGifs : HandleFile(gif)
    \/ \E outcome \in EmptyBytes : ReRender(outcome)
    \/ \E t \in intervals : Tick(t)
    \/ FlushEffect
    \/ Prev
    \/ NextFrame
    \/ Play
    \/ Stop
    \/ \E v \in WidthInputs : SetWidth(v)
    \/ \E v \in FpsInputs : SetFps(v)
    \/ \E v \in AlphaInputs : SetAlphaThreshold(v)
    \/ \E text \in EditTexts(frames, index) : applyFrameEdit(text)

Spec == Init /\ [][Next]_vars

----------------------------------------------------------------------------
(* decodeGifFromBytes, one loop iteration at a time *)

AsmWidths == {4}
AsmThresholds == {16}

InitAsm ==
    /\ frames = Null
    /\ index = 0
    /\ playing = FALSE
    /\ fps = 12
    /\ width \in AsmWidths
    /\ alphaThreshold \in AsmThresholds
    /\ timerRef = 0
    /\ intervals = {}
    /\ effectPending = FALSE
    /\ cleanup = FALSE
    /\ mounted = TRUE
    /\ lastOp = "init"
    /\ conv = NoConv
    /\ browser \in Browsers
    /\ decompressed \in SeqsUpTo(PatchFrames, MaxFrames)
    /\ lsd = Logical
    /\ canvas = LoopStart(Logical).canvas
    /\ asciiFrames = <<>>
    /\ pos = 0
    /\ full = LoopStart(Logical).full
    /\ pc = "loop"

\* the body of for (const f of decompressed)
LoopStep ==
    /\ pc = "loop"
    /\ pos < Len(decompressed)
    /\ LET st == LoopBody([canvas |-> canvas, asciiFrames |-> asciiFrames, full |-> full],
                          FrameAt(decompressed, pos + 1), lsd, width, alphaThreshold, browser)
       IN /\ canvas' = st.canvas
          /\ asciiFrames' = st.asciiFrames
          /\ full' = st.full
    /\ pos' = pos + 1
    /\ UNCHANGED <<appVars, decompressed, lsd, pc, browser>>

\* setFrames(asciiFrames); setIndex(0) after the loop
Publish ==
    /\ pc = "loop"
    /\ pos = Len(decompressed)
    /\ Commit("Load", asciiFrames, 0, playing, fps, TRUE, "async")
    /\ conv' = [width |-> width, lsd |-> lsd]
    /\ pc' = "done"
    /\ UNCHANGED <<width, alphaThreshold, decompressed, lsd, canvas, asciiFrames, pos, full,
                   browser>>

NextAsm ==
    \/ LoopStep
    \/ Publish

SpecAsm == InitAsm /\ [][NextAsm]_vars

----------------------------------------------------------------------------
(* decodeGifFromBytes on one patch of two pixels: the glyph of a pixel *)

\* greys on either side of the palette's rounding steps, and saturated and
\* mixed colours
RGBs ==
    {<<v, v, v>> : v \in {0, 14, 15, 42, 43, 127, 128, 212, 213, 255}}
    \cup {<<255, 0, 0>>, <<0, 255, 0>>, <<0, 0, 255>>, <<255, 255, 0>>, <<0, 255, 255>>,
          <<255, 0, 255>>, <<128, 0, 0>>, <<0, 128, 0>>, <<200, 100, 50>>, <<50, 100, 200>>}

\* opaque pixels of every colour above, and black, white and red pixels with
\* an alpha below, at and above the default threshold
PatchPixels ==
    {<<c[1], c[2], c[3], 255>> : c \in RGBs}
    \cup {<<c[1], c[2], c[3], a>> :
             c \in {<<0, 0, 0>>, <<255, 255, 255>>, <<255, 0, 0>>}, a \in {0, 15, 16, 128}}

PixThresholds == {16, 129}

PixLogical == [width |-> 2, height |-> 1]

InitPix ==
    /\ frames = Null
    /\ index = 0
    /\ playing = FALSE
    /\ fps = 12
    /\ width = PixLogical.width
    /\ alphaThreshold \in PixThresholds
    /\ timerRef = 0
    /\ intervals = {}
    /\ effectPending = FALSE
    /\ cleanup = FALSE
    /\ mounted = TRUE
    /\ lastOp = "init"
    /\ conv = NoConv
    /\ browser \in Browsers
    /\ \E p1 \in PatchPixels, p2 \in PatchPixels :
          decompressed = <<PatchFrame(<<p1, p2>>, Rect(0, 0, 2, 1), 0)>>
    /\ lsd = PixLogical
    /\ canvas = LoopStart(PixLogical).canvas
    /\ asciiFrames = <<>>
    /\ pos = 0
    /\ full = LoopStart(PixLogical).full
    /\ pc = "loop"

SpecPix == InitPix /\ [][NextAsm]_vars

----------------------------------------------------------------------------
(* Playback state: claims C1 - C3 *)

\* C1: whenever a sequence is loaded, 0 <= index < length of the loaded sequence.
C1_IndexInRange == frames # Null => (index >= 0 /\ index < Len(frames))

\* C2 as stated: publishing a new sequence resets the index to 0 and stops
\* playback (stated for a sequence that can be shown, one with a frame).
C2_PublishStops == [][(lastOp' = "Load" /\ mounted') => (index' = 0 /\ ~playing')]_vars

\* C2 amended: publishing a new sequence resets the index to 0 and leaves the
\* running flag as it was.
C2_PublishResetsIndex == [][lastOp' = "Load" => (index' = 0 /\ playing' = playing)]_vars

\* a new, non-empty sequence was published while playback was running
C2_Witness ==
    /\ lastOp = "Load"
    /\ mounted
    /\ playing
    /\ index = 0
    /\ Len(frames) = 3

\* C3: Stop keeps the index and leaves no live timer; while stopped the index
\* moves only by a seek or by a new sequence, never by a timer tick.
C3_StopHalts ==
    [][/\ lastOp' = "Stop" => (index' = index /\ ~playing' /\ intervals' = {})
       /\ lastOp' = "Tick" => playing
       /\ (~playing /\ ~playing' /\ index' # index)
              => lastOp' \in {"Prev", "Next", "Load", "ReRender"}]_vars

\* playback was stopped away from the first frame
C3_Witness ==
    /\ lastOp = "Stop"
    /\ mounted
    /\ ~playing
    /\ index = 2
    /\ intervals = {}

----------------------------------------------------------------------------
(* Assembler and compositor: claims C4 - C8 *)

Screen == {<<x, y>> : x \in 0..(lsd.width - 1), y \in 0..(lsd.height - 1)}

InDims(c, f) == InRect(c[1], c[2], f.dims.left, f.dims.top, f.dims.width, f.dims.height)

\* the pixel of f's patch that lands on screen cell c
PatchPixel(f, c) ==
    PixelAt(ImageData(f.patch, f.dims.width, f.dims.height),
            c[1] - f.dims.left, c[2] - f.dims.top)

CoversScreen(f) ==
    f.patch # NoPatch /\ \A c \in Screen : InDims(c, f)

\* C4: one grid per patch frame consumed, in input order, none dropped: the
\* output is as long as the input consumed, frames without patch data included,
\* and the grid at the place of a frame whose patch covers the whole screen is
\* the grid of that patch alone.
C4_OnePerFrame ==
    /\ Len(asciiFrames) = pos
    /\ pc = "done" => (pos = Len(decompressed) /\ frames = asciiFrames)
    /\ \A i \in 1..pos :
          CoversScreen(decompressed[i]) =>
              asciiFrames[i] =
                  imageDataToAscii(
                      putImageData(Blank(lsd.width, lsd.height, Transparent),
                                   ImageData(decompressed[i].patch, decompressed[i].dims.width,
                                             decompressed[i].dims.height),
                                   decompressed[i].dims.left, decompressed[i].dims.top, browser),
                      width, alphaThreshold, browser)

\* two frames were assembled, the first without patch data, the second a
\* whole-screen patch
C4_Witness ==
    /\ pc = "done"
    /\ Len(decompressed) = 2
    /\ decompressed[1].patch = NoPatch
    /\ CoversScreen(decompressed[2])
    /\ Len(frames) = 2

\* C5: no lookahead: the first i grids of the output are the output of the
\* first i patch frames alone, so two lists that agree on patches 1..i give the
\* same first i grids.
C5_NoLookahead ==
    \A i \in 0..pos :
        SubSeq(asciiFrames, 1, i)
            = Assemble(Gif(lsd, SubSeq(decompressed, 1, i)), width, alphaThreshold, browser)

\* the second patch changed the picture and the first grid is that of the
\* first patch alone
C5_Witness ==
    /\ pc = "done"
    /\ Len(decompressed) = 2
    /\ asciiFrames[1] # asciiFrames[2]
    /\ asciiFrames[1]
           = Assemble(Gif(lsd, SubSeq(decompressed, 1, 1)), width, alphaThreshold, browser)[1]

\* C6: the snapshot of frame i is taken after patch i is written and before its
\* disposal: for a policy 2 or 3 frame the snapshot, and the grid made from it,
\* hold the patch inside its rectangle; the rectangle is clear on the canvas
\* afterwards, and in the snapshot of the next frame where that frame writes
\* nothing.
C6_SnapshotBeforeDisposal ==
    /\ pos >= 1 =>
          LET f == decompressed[pos]
          IN (f.disposalType \in {2, 3} /\ f.patch # NoPatch) =>
                /\ \A c \in Screen :
                      InDims(c, f) => PixelAt(full, c[1], c[2]) = Stored(PatchPixel(f, c), browser)
                /\ asciiFrames[pos] = imageDataToAscii(full, width, alphaThreshold, browser)
                /\ \A c \in Screen : InDims(c, f) => PixelAt(canvas, c[1], c[2]) = Transparent
    /\ pos >= 2 =>
          LET f == decompressed[pos - 1]
          IN (f.disposalType \in {2, 3} /\ decompressed[pos].patch = NoPatch) =>
                \A c \in Screen : InDims(c, f) => PixelAt(full, c[1], c[2]) = Transparent

\* a white patch with policy 3 is in its snapshot and gone from the canvas
C6_Witness ==
    /\ pos >= 1
    /\ decompressed[pos].disposalType = 3
    /\ decompressed[pos].patch = Solid(White, 2, 2)
    /\ PixelAt(full, 1, 1) = White
    /\ PixelAt(canvas, 1, 1) = Transparent

\* C7: restoreToBackground clears exactly the patch's rectangle: after a policy 2
\* frame every canvas pixel inside the rectangle is transparent and every pixel
\* outside it is as it was in the frame's snapshot.
C7_RestoreToBackground ==
    pos >= 1 =>
        LET f == decompressed[pos]
        IN f.disposalType = 2 =>
              \A c \in Screen :
                  PixelAt(canvas, c[1], c[2]) =
                      IF InDims(c, f) THEN Transparent ELSE PixelAt(full, c[1], c[2])

\* a 2 x 2 rectangle was cleared inside a black screen that stays black
C7_Witness ==
    /\ pos = 2
    /\ decompressed[2].disposalType = 2
    /\ decompressed[2].dims = Rect(1, 1, 2, 2)
    /\ PixelAt(full, 1, 1) = White
    /\ PixelAt(canvas, 1, 1) = Transparent
    /\ PixelAt(canvas, 0, 0) = Black
    /\ PixelAt(canvas, 3, 3) = Black

ScenarioDone == pc = "done" /\ decompressed = Scenario /\ lsd = Logical /\ width = 4

\* the place of a glyph in the palette, 1 for the darkest
Darkness(ch) == CHOOSE i \in 1..Len(ASCII_CHARS) : ASCII_CHARS[i] = ch

\* C8 as stated: the scenario gives 4 rows of "@@@@", then "@@@@", "@  @", "@  @", "@@@@".
C8_FourRows ==
    ScenarioDone =>
        asciiFrames = << <<<<"@", "@", "@", "@">>, <<"@", "@", "@", "@">>,
                           <<"@", "@", "@", "@">>, <<"@", "@", "@", "@">>>>,
                         <<<<"@", "@", "@", "@">>, <<"@", " ", " ", "@">>,
                           <<"@", " ", " ", "@">>, <<"@", "@", "@", "@">>>> >>

\* C8 amended: the scenario gives 2 rows of "@@@@" for frame 1 and, for frame 2,
\* 2 rows of width 4 with "@" in the first and last column and, in at least one
\* row, glyphs lighter than "@" in the two middle columns.
C8_TwoRows ==
    ScenarioDone =>
        /\ Len(asciiFrames) = 2
        /\ asciiFrames[1] = <<<<"@", "@", "@", "@">>, <<"@", "@", "@", "@">>>>
        /\ Len(asciiFrames[2]) = 2
        /\ \A r \in 1..2 :
              /\ Len(asciiFrames[2][r]) = 4
              /\ asciiFrames[2][r][1] = "@"
              /\ asciiFrames[2][r][4] = "@"
        /\ \E r \in 1..2 :
              /\ Darkness(asciiFrames[2][r][2]) > 1
              /\ Darkness(asciiFrames[2][r][3]) > 1

\* the scenario was converted and its second grid has a lighter middle
C8_Witness ==
    /\ ScenarioDone
    /\ asciiFrames[2][1][2] # "@"

----------------------------------------------------------------------------
(* Grid dimensions and configuration: claims C9 - C10 *)

\* C9: every grid of the loaded sequence has H rows of width W, W the width the
\* sequence was converted with and H = max(1, round(logicalHeight / logicalWidth
\* * W * 0.5)).  Stated for a positive W; C10 covers the others.
C9_UniformGrid ==
    (frames # Null /\ conv.width >= 1) =>
        \A i \in 1..Len(frames) :
            /\ Len(frames[i]) = Max(1, Round(conv.lsd.height * conv.width, 2 * conv.lsd.width))
            /\ \A r \in 1..Len(frames[i]) : Len(frames[i][r]) = conv.width

\* C10: the width and height the resampler works with are both at least 1,
\* whatever width was configured.
C10_Clamped ==
    (frames # Null /\ frames # <<>>) =>
        LET img == Blank(conv.lsd.width, conv.lsd.height, Transparent)
        IN /\ targetWidth(img, conv.width) >= 1
           /\ targetHeight(img, conv.width) >= 1

----------------------------------------------------------------------------
(* Empty sequence, seeking and ticking: claims C11 - C13 *)

\* C11: a loaded sequence of length 0 is never indexed: the display does not
\* evaluate frames[index] on it (mounted is FALSE exactly when the render's
\* frames[index].join has thrown), and no timer advances the index modulo 0.
C11_EmptyNotIndexed ==
    (frames # Null /\ Len(frames) = 0) =>
        (mounted /\ \A t \in intervals : t.len # 0)

\* C12: Next moves the index by +1 and Prev by -1 modulo N, wrapping at both
\* ends, whether playback is running or not, and neither changes the running
\* flag or the sequence.
C12_SeekWraps ==
    [][/\ lastOp' = "Next" =>
             /\ index' = (IF index = Len(frames) - 1 THEN 0 ELSE index + 1)
             /\ playing' = playing
             /\ frames' = frames
       /\ lastOp' = "Prev" =>
             /\ index' = (IF index = 0 THEN Len(frames) - 1 ELSE index - 1)
             /\ playing' = playing
             /\ frames' = frames]_vars

\* Prev wrapped from the first frame to the last while playback was running
C12_Witness ==
    /\ lastOp = "Prev"
    /\ mounted
    /\ playing
    /\ Len(frames) = 3
    /\ index = 2
    /\ intervals # {}

\* C13: while running on a sequence of length N > 0, every clock tick advances
\* the index by exactly 1 modulo N.
C13_TickAdvances ==
    [][(lastOp' = "Tick" /\ playing /\ Len(frames) > 0) =>
           index' = (index + 1) % Len(frames)]_vars

----------------------------------------------------------------------------
(* Glyph of a pixel: claims C14 - C15 *)

\* the resized image the last grid was made from, and its cells
LastResized == Resized(full, width, browser)

Cells(img) == {<<x, y>> : x \in 0..(img.width - 1), y \in 0..(img.height - 1)}

\* C14: every pixel whose alpha is below alphaThreshold is mapped to the space
\* glyph, whatever its R, G and B: each row of the grid has one glyph per
\* pixel, and the glyph of a pixel below the threshold is " ".
C14_AlphaFirst ==
    pos >= 1 =>
        /\ Len(asciiFrames[pos]) = LastResized.height
        /\ \A c \in Cells(LastResized) :
              /\ Len(asciiFrames[pos][c[2] + 1]) = LastResized.width
              /\ PixelAt(LastResized, c[1], c[2])[4] < alphaThreshold
                    => asciiFrames[pos][c[2] + 1][c[1] + 1] = " "

\* a black pixel just below the threshold is a space, next to an opaque black
\* pixel that is "@"
C14_Witness ==
    /\ pc = "done"
    /\ alphaThreshold = 16
    /\ full.data = <<(<<0, 0, 0, 15>>), Black>>
    /\ frames = << <<(<<" ", "@">>)>> >>

\* C15: between two pixels that are given a palette glyph, the one whose
\* computed luminance is less than or equal to the other's gets a palette
\* index that is less than or equal to the other's, and every such pixel's
\* index is in 0..9 and its glyph is the palette's glyph at that index.
C15_Monotone ==
    pos >= 1 =>
        LET Px(c) == PixelAt(LastResized, c[1], c[2])
            Glyph(c) == asciiFrames[pos][c[2] + 1][c[1] + 1]
            Lit == {c \in Cells(LastResized) : Px(c)[4] >= alphaThreshold}
        IN /\ \A c \in Lit :
                 /\ Len(asciiFrames[pos][c[2] + 1]) = LastResized.width
                 /\ PaletteIndex(Px(c)[1], Px(c)[2], Px(c)[3]) \in 0..9
                 /\ \E i \in 0..9 : Glyph(c) = ASCII_CHARS[i + 1]
           /\ \A c \in Lit, d \in Lit :
                 rgbToLum(Px(c)[1], Px(c)[2], Px(c)[3]) <= rgbToLum(Px(d)[1], Px(d)[2], Px(d)[3])
                     => Darkness(Glyph(c)) <= Darkness(Glyph(d))

\* green is lighter than red and has the lighter glyph although its red
\* channel is the smaller
C15_Witness ==
    /\ pc = "done"
    /\ full.data = <<(<<255, 0, 0, 255>>), (<<0, 255, 0, 255>>)>>
    /\ frames = << <<(<<"#", "-">>)>> >>

----------------------------------------------------------------------------
(* Patch write and disposal policies: claims C16 - C18 *)

\* C16 as stated: after the patch write every canvas pixel inside the patch
\* rectangle equals the patch pixel in all four channels, and every pixel
\* outside it is as it was before the write.
C16_ExactOverwrite ==
    [][pos' = pos + 1 =>
          LET f == decompressed[pos']
          IN \A c \in Screen :
                PixelAt(full', c[1], c[2]) =
                    IF f.patch # NoPatch /\ InDims(c, f) THEN PatchPixel(f, c)
                    ELSE PixelAt(canvas, c[1], c[2])]_vars

\* C16 amended: the patch write overwrites and does not blend: inside the
\* rectangle the canvas pixel has the alpha of the patch pixel, and its colour
\* when the patch pixel is opaque; a transparent patch pixel leaves a
\* transparent pixel, with its own colour or with none.  Outside the rectangle
\* every pixel is as it was before the write.
C16_Overwrite ==
    [][pos' = pos + 1 =>
          LET f == decompressed[pos']
          IN \A c \in Screen :
                IF f.patch # NoPatch /\ InDims(c, f)
                THEN /\ PixelAt(full', c[1], c[2])[4] = PatchPixel(f, c)[4]
                     /\ PatchPixel(f, c)[4] = 255 => PixelAt(full', c[1], c[2]) = PatchPixel(f, c)
                     /\ PatchPixel(f, c)[4] = 0 =>
                            PixelAt(full', c[1], c[2]) \in {PatchPixel(f, c), Transparent}
                ELSE PixelAt(full', c[1], c[2]) = PixelAt(canvas, c[1], c[2])]_vars

\* a transparent 2 x 2 patch was written into a black screen
C16_Witness ==
    /\ pos = 2
    /\ decompressed[1] = PatchFrame(Solid(Black, 4, 4), Rect(0, 0, 4, 4), 1)
    /\ decompressed[2].patch = Solid(Clear, 2, 2)
    /\ PixelAt(full, 1, 1)[4] = 0
    /\ PixelAt(full, 2, 2)[4] = 0
    /\ PixelAt(full, 0, 0) = Black
    /\ PixelAt(full, 3, 1) = Black

\* C17: with disposal tag 1 or 0 the canvas after the frame is the frame's
\* snapshot, and the next frame's snapshot is that snapshot wherever the next
\* frame writes no patch pixel.
C17_DoNotDispose ==
    [][pos' = pos + 1 =>
          /\ decompressed[pos'].disposalType \in {0, 1} => canvas' = full'
          /\ (pos >= 1 /\ decompressed[pos].disposalType \in {0, 1}) =>
                /\ canvas = full
                /\ \A c \in Screen :
                      (decompressed[pos'].patch = NoPatch \/ ~InDims(c, decompressed[pos']))
                          => PixelAt(full', c[1], c[2]) = PixelAt(full, c[1], c[2])]_vars

\* a black screen kept with tag 1 shows around the white patch of the next
\* frame, which is kept in turn with tag 0
C17_Witness ==
    /\ pos = 2
    /\ decompressed[1] = PatchFrame(Solid(Black, 4, 4), Rect(0, 0, 4, 4), 1)
    /\ decompressed[2] = PatchFrame(Solid(White, 2, 2), Rect(1, 1, 2, 2), 0)
    /\ PixelAt(full, 0, 0) = Black
    /\ PixelAt(full, 1, 1) = White
    /\ canvas = full

\* a patch frame with tag 3 replaced by tag 2
ThreeAsTwo(f) == [f EXCEPT !.disposalType = IF @ = 3 THEN 2 ELSE @]

\* C18: replacing tag 3 by tag 2 changes nothing: from every canvas the loop
\* reaches, a frame and the same frame with 3 replaced by 2 leave the same
\* canvas, the same snapshot and the same grids, so that (both runs starting
\* from the same cleared canvas) the two lists give the same canvas after each
\* frame and the same sequence; a tag 3 frame leaves its rectangle cleared.
C18_ThreeIsTwo ==
    [][pos' = pos + 1 =>
          LET f == decompressed[pos']
              st == LoopBody([canvas |-> canvas, asciiFrames |-> asciiFrames, full |-> full],
                             ThreeAsTwo(f), lsd, width, alphaThreshold, browser)
          IN /\ st.canvas = canvas'
             /\ st.full = full'
             /\ st.asciiFrames = asciiFrames'
             /\ f.disposalType = 3 =>
                   \A c \in Screen :
                       InDims(c, f) => PixelAt(canvas', c[1], c[2]) = Transparent]_vars

\* a white patch with tag 3 on a black screen: its rectangle is transparent
\* afterwards, not black again
C18_Witness ==
    /\ pos = 2
    /\ decompressed[1] = PatchFrame(Solid(Black, 4, 4), Rect(0, 0, 4, 4), 1)
    /\ decompressed[2] = PatchFrame(Solid(White, 2, 2), Rect(1, 1, 2, 2), 3)
    /\ PixelAt(full, 1, 1) = White
    /\ PixelAt(canvas, 1, 1) = Transparent
    /\ PixelAt(canvas, 0, 0) = Black

----------------------------------------------------------------------------
(* Timer discipline and frame edit: claims C19 - C20 *)

\* C19: after every step at most one interval timer is live, and none while
\* the running flag is false; a step that re-runs the playback effect while
\* playing (an fps change, a sequence change by an edit, the effect left
\* pending by a new sequence) leaves exactly one timer, the one timerRef holds,
\* started with the current length and period, and does not move the index.
C19_OneTimer ==
    [][/\ Cardinality(intervals') <= 1
       /\ ~playing' => intervals' = {}
       /\ (/\ lastOp' \in {"SetFps", "Edit", "Effect"}
           /\ playing /\ playing' /\ frames # Null
           /\ (lastOp' = "SetFps" => fps' # fps)) =>
             /\ intervals' = {[id |-> timerRef', len |-> Len(frames'), delay |-> Delay(fps')]}
             /\ index' = index]_vars

\* the timer was restarted by an fps change while playback was running away
\* from the first frame
C19_Witness ==
    /\ lastOp = "SetFps"
    /\ mounted
    /\ playing
    /\ index = 1
    /\ fps = 0 - 5
    /\ intervals = {[id |-> timerRef, len |-> 3, delay |-> 1]}

\* C20: an edit replaces exactly the frame at the current index, by the lines
\* of one of the texts the textarea can hold: the length of the sequence, every
\* other frame, the index and the running flag are unchanged; with no sequence
\* loaded the edit changes nothing.
C20_EditOneFrame ==
    [][lastOp' = "Edit" =>
          /\ index' = index
          /\ playing' = playing
          /\ IF frames = Null THEN frames' = Null
             ELSE /\ Len(frames') = Len(frames)
                  /\ \A i \in 1..Len(frames) : i # index + 1 => frames'[i] = frames[i]
                  /\ \E text \in EditTexts(frames, index) :
                        /\ Join(frames'[index + 1]) = text
                        /\ \A r \in 1..Len(frames'[index + 1]) :
                              \A k \in 1..Len(frames'[index + 1][r]) :
                                  frames'[index + 1][r][k] # "\n"]_vars

\* the second of three frames was overwritten by a two-line text while
\* playback was running
C20_Witness ==
    /\ lastOp = "Edit"
    /\ mounted
    /\ playing
    /\ index = 1
    /\ Len(frames) = 3
    /\ frames[2] = <<(<<"@">>), (<<"@", "@">>)>>
    /\ frames[1] # frames[2]
    /\ frames[3] # frames[2]

====
